---- MODULE Spec2Model ----
(***************************************************************************)
(* A model of the music-stream application: the playback engine            *)
(* (AudioPlayerService), the library index (TrackService) over the         *)
(* persistence store (StorageService), and the components that drive them. *)
(* Indices into the queue are 0-based as in the source; TLA+ sequences are *)
(* 1-based, so the entry at index i is queue[i + 1].                       *)
(***************************************************************************)
EXTENDS Integers, Sequences, FiniteSets, TLC

\* ---------------------------------------------------------------- bounds
MaxQueue == 2           \* longest queue / original queue
MaxPending == 2         \* load promises awaiting the device at one time
MaxInFlight == 1        \* library calls awaiting the file reader or the store
MaxConcurrent == 3      \* the same, where the calls are made to overlap
MaxEngaged == 2         \* plays, likes and edits of tracks in flight together
MaxEdited == 4          \* longest queue that entries are removed from
MaxStep == 3            \* largest volume step or overshoot, in tenths
MaxTime == 4            \* length of every track, in seconds
MaxCount == 1           \* play / like count up to which a track is played / liked

InitialVolume == 7      \* volumeSignal starts at 0.7
FullVolume == 10        \* volume 1, in tenths
DefaultAmount == 1      \* increaseVolume / decreaseVolume step of 0.1
Unread == -1            \* the duration computed has not been evaluated
RestartAfter == 3       \* previous(): seconds after which the track restarts
NoTrack == 0            \* null / undefined track
TrackIds == {1, 2}        \* the ids of the tracks handed to the player

Max(a, b) == IF a > b THEN a ELSE b
Min(a, b) == IF a < b THEN a ELSE b

\* ------------------------------------------------------- player variables
VARIABLES
  currentTrack,     \* currentTrackSignal: a track id or NoTrack
  status,           \* statusSignal
  queue,            \* queueSignal: sequence of track ids
  currentIndex,     \* currentIndexSignal (0-based, -1 when unset)
  isShuffled,       \* isShuffledSignal
  isRepeating,      \* isRepeatingSignal
  originalQueue,    \* originalQueueSignal
  error,            \* errorSignal
  isLoading,        \* isLoadingSignal
  audioSrc,         \* audioElement.src: the track the device is bound to
  audioPaused,      \* audioElement.paused
  pendingLoads,     \* loadTrack promises not yet settled, oldest first
  pendingPlay,      \* an audioElement.play() promise is not yet settled
  currentTime,      \* currentTimeSignal, in seconds
  audioCurrentTime, \* audioElement.currentTime, in seconds
  audioReady,       \* the device knows the duration of what it is bound to
  pauseQueued,      \* the device has a 'pause' event queued for delivery
  durationMemo,     \* the memoised value of the duration computed, or Unread
  volume,           \* volumeSignal, in tenths
  isMuted,          \* isMutedSignal
  savedState,       \* localStorage 'music-stream-player-state', parsed
  boot,             \* where the startup sequence of this page load stands
  listing,          \* sortBySignal, sortOrderSignal and the last value read
                    \* of the tracks computed, with the list it was sorted from
  lastCall,         \* history: the navigation call that ran last, and what it found
  roundTrip,        \* history: progress of a setQueue / shuffle / unshuffle run
  \* ---- library
  store,            \* the tracks object store: id -> record, for the ids present
  tracksSignal,     \* TrackService.tracksSignal: the projection, a sequence
  loadingState,     \* TrackService.loadingState
  storeQueue,       \* requests placed on the store and not yet answered, oldest first
  preparing,        \* createTrack calls reading their files, before the write
  issuedIds,        \* the ids uuidv4() has handed out (none is handed out twice)
  lastResult,       \* how the most recently settled library call ended
  repeated,         \* history: the last two settled calls ended alike
  playlists,        \* the playlists object store: id -> record
  exported          \* the file the last exportData produced, or NoExport

playerVars == <<currentTrack, status, queue, currentIndex, isShuffled,
                isRepeating, originalQueue, error, isLoading, audioSrc,
                audioPaused, pendingLoads, pendingPlay, currentTime,
                audioCurrentTime, audioReady, pauseQueued, durationMemo,
                volume, isMuted, savedState, boot>>

libVars == <<store, tracksSignal, loadingState, storeQueue, preparing, issuedIds,
             lastResult, repeated, playlists, exported, listing>>

vars == <<playerVars, roundTrip, lastCall, libVars>>

\* roundTrip records the queue Q that setQueue installed while shuffle was
\* off for as long as the only queue intents since are toggleShuffle calls:
\* "installed" after the setQueue, "shuffled" after the first toggle,
\* "restored" after the second. Any other queue intent ends the run.
NoRoundTrip == [phase |-> "none", Q |-> <<>>, shuffled |-> <<>>]

\* The player's state as one record, so that a handler is the composition
\* of the calls it makes.
P == [currentTrack |-> currentTrack, status |-> status, queue |-> queue,
      currentIndex |-> currentIndex, isShuffled |-> isShuffled,
      isRepeating |-> isRepeating, originalQueue |-> originalQueue,
      error |-> error, isLoading |-> isLoading, audioSrc |-> audioSrc,
      audioPaused |-> audioPaused, pendingLoads |-> pendingLoads,
      pendingPlay |-> pendingPlay, currentTime |-> currentTime,
      audioCurrentTime |-> audioCurrentTime, audioReady |-> audioReady,
      pauseQueued |-> pauseQueued, durationMemo |-> durationMemo,
      volume |-> volume, isMuted |-> isMuted]

\* lastCall records the last step when it was a player call, a device
\* error, a load timeout or the handling of 'ended', with the arguments
\* and (setQueue apart) the state the call found; any other player step
\* clears it, and the delivery of a queued 'pause' event keeps it.
NoCall == [op |-> "none"]

Called(op, index, p) ==
  [op |-> op, index |-> index,
   was |-> [queue |-> p.queue, currentIndex |-> p.currentIndex,
            currentTrack |-> p.currentTrack, currentTime |-> p.currentTime,
            isRepeating |-> p.isRepeating, status |-> p.status]]

\* The same for a call that is judged by the status and volume it found.
Noted(op, index, p) ==
  [op |-> op, index |-> index, was |-> [status |-> p.status, volume |-> p.volume]]

\* The snapshot the effect of setupEffects writes: eight fields, no
\* currentTime.
EffectSnapshot(p) ==
  [currentTrack |-> p.currentTrack, status |-> p.status, volume |-> p.volume,
   isMuted |-> p.isMuted, isShuffled |-> p.isShuffled,
   isRepeating |-> p.isRepeating, queue |-> p.queue,
   currentIndex |-> p.currentIndex]

\* The snapshot saveState() writes: the same with currentTime.
SaveStateSnapshot(p) ==
  [currentTrack |-> p.currentTrack, status |-> p.status,
   currentTime |-> p.currentTime, volume |-> p.volume,
   isMuted |-> p.isMuted, isShuffled |-> p.isShuffled,
   isRepeating |-> p.isRepeating, queue |-> p.queue,
   currentIndex |-> p.currentIndex]

\* The player as its constructor leaves it, with volume v.
Constructed(v) ==
  [currentTrack |-> NoTrack, status |-> "stopped", queue |-> <<>>,
   currentIndex |-> -1, isShuffled |-> FALSE, isRepeating |-> FALSE,
   originalQueue |-> <<>>, error |-> "", isLoading |-> FALSE,
   audioSrc |-> NoTrack, audioPaused |-> TRUE, pendingLoads |-> <<>>,
   pendingPlay |-> FALSE, currentTime |-> 0, audioCurrentTime |-> 0,
   audioReady |-> FALSE, pauseQueued |-> FALSE, durationMemo |-> Unread,
   volume |-> v, isMuted |-> FALSE]

CommitSignals(p) ==
  /\ currentTrack' = p.currentTrack
  /\ status' = p.status
  /\ queue' = p.queue
  /\ currentIndex' = p.currentIndex
  /\ isShuffled' = p.isShuffled
  /\ isRepeating' = p.isRepeating
  /\ originalQueue' = p.originalQueue
  /\ error' = p.error
  /\ isLoading' = p.isLoading
  /\ audioSrc' = p.audioSrc
  /\ audioPaused' = p.audioPaused
  /\ pendingLoads' = p.pendingLoads
  /\ pendingPlay' = p.pendingPlay
  /\ currentTime' = p.currentTime
  /\ audioCurrentTime' = p.audioCurrentTime
  /\ audioReady' = p.audioReady
  /\ pauseQueued' = p.pauseQueued
  /\ durationMemo' = p.durationMemo
  /\ volume' = p.volume
  /\ isMuted' = p.isMuted

\* A step of the player: the signals take their new values, and the effect
\* that reads currentTrack, status, volume, isMuted, isShuffled,
\* isRepeating, queue and currentIndex runs again when one of them changed,
\* replacing what is stored under the key.
Commit(p) ==
  /\ CommitSignals(p)
  /\ savedState' = IF EffectSnapshot(p) # EffectSnapshot(P)
                     THEN EffectSnapshot(p)
                     ELSE savedState

PlayerStep(p) == Commit(p) /\ lastCall' = NoCall /\ UNCHANGED <<boot, libVars>>

\* A step the device takes: a recorded stop() stays on record, as no call
\* has been made since.
DeviceStep(p) ==
  /\ Commit(p)
  /\ lastCall' = IF lastCall.op = "stop" THEN lastCall ELSE NoCall
  /\ UNCHANGED <<boot, libVars>>

NavigationStep(p, call) ==
  Commit(p) /\ lastCall' = call /\ UNCHANGED <<boot, libVars>>

\* ------------------------------------------------------ array primitives
\* Array.prototype.findIndex(t => t.id === id): first 0-based index or -1.
FindIndex(s, id) ==
  IF \E i \in 1..Len(s) : s[i] = id
    THEN (CHOOSE i \in 1..Len(s) : s[i] = id /\ \A j \in 1..(i - 1) : s[j] # id) - 1
    ELSE -1

\* Array.prototype.slice(a, b) for 0 <= a, with b clamped to the length.
Slice(s, a, b) == SubSeq(s, a + 1, Min(b, Len(s)))

\* Array.prototype.filter((_, i) => i !== index)
RemoveAt(s, index) == SubSeq(s, 1, index) \o SubSeq(s, index + 2, Len(s))

\* The bijections of 1..n.
Perms(n) == {f \in [1..n -> 1..n] : \A i, j \in 1..n : f[i] = f[j] => i = j}

\* A shuffle whose swap overwrites instead of exchanging: entries may be
\* lost and others doubled.
ShufflesOverwriting(tracks) ==
  {[i \in 1..Len(tracks) |-> tracks[f[i]]] : f \in [1..Len(tracks) -> 1..Len(tracks)]}

\* Every outcome of the Fisher-Yates loop of shuffleQueue on tracks.
Shuffles(tracks) ==
  {[i \in 1..Len(tracks) |-> tracks[f[i]]] : f \in Perms(Len(tracks))}

\* All sequences over S of length at most n.
SeqsUpTo(S, n) == UNION {[1..k -> S] : k \in 0..n}

\* ------------------------------------------------------------- loadTrack
\* The synchronous part of loadTrack(track), up to the await: the promise
\* it then waits on is appended to pendingLoads. thenPlay records that the
\* caller is play(track), whose continuation runs when the promise settles.
\* loadTrack(undefined) throws on track.fileUrl before binding the device.
\* load() pauses the device without a 'pause' event and discards the
\* events the device had queued.
LoadTrack(p, track, thenPlay) ==
  LET p1 == [p EXCEPT !.status = "loading", !.error = "", !.isLoading = TRUE,
                      !.currentTrack = track]
  IN IF track = NoTrack
       THEN [p1 EXCEPT !.error = "load", !.status = "stopped", !.isLoading = FALSE]
       ELSE LET index == FindIndex(p1.queue, track)
                p2 == [p1 EXCEPT !.audioSrc = track, !.audioPaused = TRUE,
                                 !.audioCurrentTime = 0, !.audioReady = FALSE,
                                 !.pauseQueued = FALSE,
                                 !.currentIndex = IF index # -1 THEN index ELSE @]
            IN [p2 EXCEPT !.pendingLoads =
                            Append(@, [track |-> track, thenPlay |-> thenPlay])]

\* A play() that does not look for a current track.
PlayCurrentUnguarded(p) ==
  [p EXCEPT !.audioPaused = FALSE, !.pendingPlay = TRUE, !.status = "playing"]

\* play() without a track, and the continuation of play(track) after its
\* load: audioElement.play() is called when a track is current; the status
\* becomes playing only when that promise resolves.
PlayCurrent(p) ==
  IF p.currentTrack # NoTrack
    THEN [p EXCEPT !.audioPaused = FALSE, !.pendingPlay = TRUE]
    ELSE p

\* ----------------------------------------------------------------- queue
\* A shuffleQueue that installs the shuffled queue and leaves the pointer.
ShuffleQueueKeepingIndex(p, shuffled) == [p EXCEPT !.queue = shuffled]

\* shuffleQueue once the Fisher-Yates loop has produced shuffled.
ShuffleQueue(p, shuffled) ==
  LET index == FindIndex(shuffled, p.currentTrack)
  IN [p EXCEPT !.queue = shuffled,
               !.currentIndex = IF p.currentTrack # NoTrack /\ index # -1
                                  THEN index ELSE @]

SetQueueOp(p, tracks, startIndex, shuffled) ==
  LET p1 == [p EXCEPT !.originalQueue = tracks]
      p2 == IF p1.isShuffled THEN ShuffleQueue(p1, shuffled)
                             ELSE [p1 EXCEPT !.queue = tracks]
  IN IF Len(tracks) > 0 /\ startIndex < Len(tracks)
       THEN [LoadTrack(p2, tracks[startIndex + 1], FALSE)
               EXCEPT !.currentIndex = startIndex]
       ELSE p2

AddToQueueOp(p, track, playNext) ==
  LET newQueue == IF playNext
                    THEN Slice(p.queue, 0, p.currentIndex + 1) \o <<track>>
                           \o Slice(p.queue, p.currentIndex + 1, Len(p.queue))
                    ELSE Append(p.queue, track)
  IN [p EXCEPT !.queue = newQueue, !.originalQueue = Append(@, track)]

\* A removeFromQueue that moves the pointer only for entries before the
\* current one.
RemoveFromQueueStrictlyBefore(p, index) ==
  IF index >= 0 /\ index < Len(p.queue)
    THEN [p EXCEPT !.queue = RemoveAt(@, index),
                   !.currentIndex = IF index < p.currentIndex
                                      THEN Max(0, p.currentIndex - 1) ELSE @]
    ELSE p

RemoveFromQueueOp(p, index) ==
  IF index >= 0 /\ index < Len(p.queue)
    THEN [p EXCEPT !.queue = RemoveAt(@, index),
                   !.currentIndex = IF index <= p.currentIndex
                                      THEN Max(0, p.currentIndex - 1) ELSE @]
    ELSE p

ToggleShuffleOp(p, shuffled) ==
  LET willShuffle == ~p.isShuffled
      p1 == [p EXCEPT !.isShuffled = willShuffle]
  IN IF willShuffle
       THEN ShuffleQueue(p1, shuffled)
       ELSE LET index == FindIndex(p1.originalQueue, p1.currentTrack)
            IN [p1 EXCEPT !.queue = p1.originalQueue,
                          !.currentIndex =
                             IF p1.currentTrack # NoTrack /\ index # -1
                               THEN index ELSE @]


\* ---------------------------------------------------- playback controls
\* play(track?): with a track, loadTrack(track) is awaited first and the
\* rest runs when that promise settles; without one, the rest runs at once.
PlayOp(p, track) ==
  IF track # NoTrack THEN LoadTrack(p, track, TRUE) ELSE PlayCurrent(p)

\* audioElement.pause() on a device that is not paused queues a 'pause'
\* event, delivered after the caller has returned.
PauseOp(p) ==
  [p EXCEPT !.audioPaused = TRUE, !.pauseQueued = @ \/ ~p.audioPaused,
            !.status = "paused"]

TogglePlayOp(p) == IF p.status = "playing" THEN PauseOp(p) ELSE PlayOp(p, NoTrack)

StopOp(p) ==
  [p EXCEPT !.audioPaused = TRUE, !.pauseQueued = @ \/ ~p.audioPaused,
            !.audioCurrentTime = 0, !.status = "stopped", !.currentTime = 0]

\* audioElement.duration || 0: NaN until the device knows the duration.
Duration(p) == IF p.audioReady THEN MaxTime ELSE 0

\* duration(): a computed that reads no signal, so its first evaluation is
\* the value every later read returns.
ReadDurationOp(p) ==
  [p EXCEPT !.durationMemo = IF @ = Unread THEN Duration(p) ELSE @]

\* seek(time): nothing while the device has no duration. The device keeps
\* its own position within the media.
SeekOp(p, time) ==
  IF p.audioReady
    THEN LET q == ReadDurationOp(p)
             safeTime == Max(0, Min(time, q.durationMemo))
         IN [q EXCEPT !.audioCurrentTime = Min(safeTime, MaxTime),
                      !.currentTime = safeTime]
    ELSE p

\* restoreState() on the parsed snapshot saved: each field that is there is
\* put back (the original queue is not among them); with a current track
\* the track is loaded, play() follows when the stored status is playing,
\* and seek() when a position other than 0 is stored.
RestoreStateOp(p, saved) ==
  LET p1 == [p EXCEPT !.volume = saved.volume, !.isMuted = saved.isMuted,
                      !.isShuffled = saved.isShuffled,
                      !.isRepeating = saved.isRepeating,
                      !.queue = saved.queue,
                      !.currentIndex = saved.currentIndex]
      p2 == LoadTrack(p1, saved.currentTrack, FALSE)
      p3 == IF saved.status = "playing" THEN PlayCurrent(p2) ELSE p2
  IN IF saved.currentTrack = NoTrack THEN p1
     ELSE IF "currentTime" \in DOMAIN saved /\ saved.currentTime # 0
       THEN SeekOp(p3, saved.currentTime)
       ELSE p3

\* setVolume, toggleMute, increaseVolume, decreaseVolume
SetVolumeOp(p, v) == [p EXCEPT !.volume = Max(0, Min(FullVolume, v))]

ToggleMuteOp(p) == [p EXCEPT !.isMuted = ~@]

IncreaseVolumeOp(p, amount) == [p EXCEPT !.volume = Min(FullVolume, p.volume + amount)]

DecreaseVolumeOp(p, amount) == [p EXCEPT !.volume = Max(0, p.volume - amount)]

\* queue[i] of a JavaScript array: undefined outside the array.
At(s, i) == IF i >= 0 /\ i < Len(s) THEN s[i + 1] ELSE NoTrack

\* A next() that wraps to the head of the queue whether or not repeat is on.
NextOpAlwaysWrapping(p) ==
  IF p.currentIndex < Len(p.queue) - 1
    THEN PlayCurrent([LoadTrack(p, At(p.queue, p.currentIndex + 1), FALSE)
                        EXCEPT !.currentIndex = p.currentIndex + 1])
    ELSE PlayCurrent([LoadTrack(p, At(p.queue, 0), FALSE)
                        EXCEPT !.currentIndex = 0])

NextOp(p) ==
  IF p.currentIndex < Len(p.queue) - 1
    THEN PlayCurrent([LoadTrack(p, At(p.queue, p.currentIndex + 1), FALSE)
                        EXCEPT !.currentIndex = p.currentIndex + 1])
    ELSE IF p.isRepeating
      THEN PlayCurrent([LoadTrack(p, At(p.queue, 0), FALSE)
                          EXCEPT !.currentIndex = 0])
      ELSE p

ToggleRepeatOp(p) == [p EXCEPT !.isRepeating = ~@]

PreviousOp(p) ==
  IF p.currentTime > RestartAfter
    THEN SeekOp(p, 0)
    ELSE IF p.currentIndex > 0
      THEN PlayCurrent([LoadTrack(p, At(p.queue, p.currentIndex - 1), FALSE)
                          EXCEPT !.currentIndex = p.currentIndex - 1])
      ELSE p

\* hasNext()
HasNext(p) == p.isRepeating \/ p.currentIndex < Len(p.queue) - 1

\* A handleTrackEnd that asks hasNext() before it looks at repeat.
HandleTrackEndNextFirst(p) ==
  IF HasNext(p) THEN NextOp(p)
  ELSE IF p.isRepeating THEN PlayCurrent(SeekOp(p, 0))
  ELSE StopOp(p)

HandleTrackEnd(p) ==
  IF p.isRepeating THEN PlayCurrent(SeekOp(p, 0))
  ELSE IF HasNext(p) THEN NextOp(p)
  ELSE StopOp(p)

\* ------------------------------------------------- settling a load promise
\* loadTrack after its await resolved: the finally block, then the caller's
\* continuation (play(track) goes on to start playback).
LoadResolvedKeepingIndicator(p, task) ==
  IF task.thenPlay THEN PlayCurrent(p) ELSE p

LoadResolved(p, task) ==
  LET p1 == [p EXCEPT !.isLoading = FALSE]
  IN IF task.thenPlay THEN PlayCurrent(p1) ELSE p1

RECURSIVE ResolveAll(_, _)
ResolveAll(p, tasks) ==
  IF tasks = <<>> THEN p ELSE ResolveAll(LoadResolved(p, Head(tasks)), Tail(tasks))

\* A rejection that loads the failed track again.
RejectAllRetrying(p, tasks) ==
  IF tasks = <<>> THEN [p EXCEPT !.status = "stopped"]
  ELSE [p EXCEPT !.error = "load", !.status = "loading", !.isLoading = TRUE,
                 !.pendingLoads = <<tasks[Len(tasks)]>>]

\* The loadTrack catch blocks run first, in the order the loads were
\* issued; the catch of each awaiting play(track) runs after them.
RejectAll(p, tasks) ==
  LET p1 == IF tasks = <<>> THEN p
            ELSE [p EXCEPT !.error = "load", !.status = "stopped", !.isLoading = FALSE]
  IN IF \E i \in 1..Len(tasks) : tasks[i].thenPlay
       THEN [p1 EXCEPT !.error = "play", !.status = "stopped"]
       ELSE p1

\* ------------------------------------------------ library: data and policy
\* A string is modelled by what the code inspects of it: its length and how
\* many of its characters are surrounding whitespace (removed by trim()).
Text(len, pad) == [len |-> len, pad |-> pad]
Absent == [len |-> -1, pad |-> 0]                 \* undefined / key not given
Trim(t) == IF t = Absent THEN Absent ELSE [len |-> t.len - t.pad, pad |-> 0]
Truthy(t) == t # Absent /\ t.len > 0

File(size, type) == [size |-> size, type |-> type]
NoFile == [size |-> -1, type |-> ""]

MusicCategory ==
  {"pop", "rock", "rap", "jazz", "classical", "electronic", "hiphop", "rnb",
   "country", "reggae", "metal", "blues", "folk"}
NotGiven == "-"                                   \* category key not given

MaxTitleLength == 50
MaxDescriptionLength == 200
MaxAudioSize == 10485760
MaxImageSize == 2097152
AudioTypes == {"audio/mpeg", "audio/wav", "audio/ogg", "audio/x-m4a"}
ImageTypes == {"image/jpeg", "image/png", "image/webp"}

\* validateTrackData: TRUE when it returns without throwing.
ValidateTrackData(d) ==
  /\ Truthy(d.title) /\ Trim(d.title).len # 0
  /\ ~(d.title.len > MaxTitleLength)
  /\ Truthy(d.artist) /\ Trim(d.artist).len # 0
  /\ ~(Truthy(d.description) /\ d.description.len > MaxDescriptionLength)
  /\ d.category # "" /\ d.category # NotGiven
  /\ d.category \in MusicCategory

\* The two checks at the head of updateTrack.
ValidateUpdates(u) ==
  /\ ~(Truthy(u.title) /\ u.title.len > MaxTitleLength)
  /\ ~(Truthy(u.description) /\ u.description.len > MaxDescriptionLength)

AudioFileAccepted(f) == ~(f.size > MaxAudioSize) /\ f.type \in AudioTypes
ImageFileAccepted(f) == ~(f.size > MaxImageSize) /\ f.type \in ImageTypes

\* new Date(): a Date object; the instant itself is not modelled.
NewDate == [type |-> "Date", instant |-> "t"]

\* The Track object createTrack builds.
NewTrack(id, d) ==
  [id |-> id, title |-> Trim(d.title), artist |-> Trim(d.artist),
   description |-> Trim(d.description), category |-> d.category,
   addedDate |-> NewDate, plays |-> 0, likes |-> 0]

\* { ...existingTrack, ...updates }
Merge(existing, u) ==
  [existing EXCEPT
     !.id = IF u.id # NoTrack THEN u.id ELSE @,
     !.title = IF u.title # Absent THEN u.title ELSE @,
     !.artist = IF u.artist # Absent THEN u.artist ELSE @,
     !.description = IF u.description # Absent THEN u.description ELSE @,
     !.category = IF u.category # NotGiven THEN u.category ELSE @]

\* The inputs the model hands to createTrack and updateTrack.
ValidInput ==
  [title |-> Text(1, 0), artist |-> Text(1, 0), description |-> Absent,
   category |-> "pop", audio |-> File(1, "audio/mpeg"), image |-> NoFile]

CreateInputs ==
  {ValidInput,
   [ValidInput EXCEPT !.title = Text(3, 2)],
   [ValidInput EXCEPT !.title = Absent],
   [ValidInput EXCEPT !.title = Text(2, 2)],
   [ValidInput EXCEPT !.title = Text(MaxTitleLength + 1, 0)],
   [ValidInput EXCEPT !.artist = Absent],
   [ValidInput EXCEPT !.artist = Text(2, 2)],
   [ValidInput EXCEPT !.artist = Text(MaxTitleLength + 1, 0)],
   [ValidInput EXCEPT !.description = Text(MaxDescriptionLength + 1, 0)],
   [ValidInput EXCEPT !.category = ""],
   [ValidInput EXCEPT !.category = "disco"],
   [ValidInput EXCEPT !.audio = File(MaxAudioSize + 1, "audio/mpeg")],
   [ValidInput EXCEPT !.audio = File(1, "audio/flac")],
   [ValidInput EXCEPT !.image = File(1, "image/png")],
   [ValidInput EXCEPT !.image = File(MaxImageSize + 1, "image/png")],
   [ValidInput EXCEPT !.image = File(1, "image/gif")]}

\* An updates object with no key given (id: NoTrack stands for no id key).
NoUpdates ==
  [id |-> NoTrack, title |-> Absent, artist |-> Absent, description |-> Absent,
   category |-> NotGiven]

UpdateInputs ==
  {[NoUpdates EXCEPT !.title = Text(2, 0)],
   [NoUpdates EXCEPT !.title = Text(0, 0)],
   [NoUpdates EXCEPT !.title = Text(MaxTitleLength + 1, 0)],
   [NoUpdates EXCEPT !.description = Text(MaxDescriptionLength + 1, 0)]}

\* ---------------------------------------------------- library: the store
NullRecord == [id |-> NoTrack]                    \* null / undefined record

Ids(tracks) == {tracks[i].id : i \in 1..Len(tracks)}

\* store.get(id): request.result || null
StoreGet(st, id) == IF id \in DOMAIN st THEN st[id] ELSE NullRecord

\* store.put(track)
StorePut(st, track) ==
  [i \in DOMAIN st \cup {track.id} |-> IF i = track.id THEN track ELSE st[i]]

\* store.delete(id): succeeds whether or not the key is present
StoreDelete(st, id) == [i \in DOMAIN st \ {id} |-> st[i]]

\* store.getAll(): the records in key order
StoreGetAll(st) ==
  [k \in 1..Cardinality(DOMAIN st) |->
     st[CHOOSE id \in DOMAIN st : Cardinality({j \in DOMAIN st : j < id}) = k - 1]]

\* tracksSignal().find(track => track.id === id)
GetTrackById(tracks, id) ==
  IF \E i \in 1..Len(tracks) : tracks[i].id = id
    THEN tracks[CHOOSE i \in 1..Len(tracks) :
                  tracks[i].id = id /\ \A j \in 1..(i - 1) : tracks[j].id # id]
    ELSE NullRecord

\* tracks.filter(t => t.id !== id)
RECURSIVE WithoutId(_, _)
WithoutId(tracks, id) ==
  IF tracks = <<>> THEN <<>>
  ELSE IF Head(tracks).id = id THEN WithoutId(Tail(tracks), id)
  ELSE <<Head(tracks)>> \o WithoutId(Tail(tracks), id)

\* tracks.map(t => t.id === id ? updatedTrack : t)
Replaced(tracks, id, updatedTrack) ==
  [i \in 1..Len(tracks) |-> IF tracks[i].id = id THEN updatedTrack ELSE tracks[i]]

\* ----------------------------------------------- library: the operations
\* The library state as a record, and the assignment of a record to the
\* primed variables.
L == [store |-> store, tracksSignal |-> tracksSignal, loadingState |-> loadingState,
      storeQueue |-> storeQueue, preparing |-> preparing, issuedIds |-> issuedIds,
      lastResult |-> lastResult, playlists |-> playlists, exported |-> exported]

CommitLib(l) ==
  /\ store' = l.store
  /\ tracksSignal' = l.tracksSignal
  /\ loadingState' = l.loadingState
  /\ storeQueue' = l.storeQueue
  /\ preparing' = l.preparing
  /\ issuedIds' = l.issuedIds
  /\ lastResult' = l.lastResult
  /\ playlists' = l.playlists
  /\ exported' = l.exported

\* A step of the library; settled says whether it ends a call.
LibStep(l, settled) ==
  /\ CommitLib(l)
  /\ repeated' = IF settled THEN l.lastResult = lastResult ELSE repeated
  /\ listing' = listing

\* ------------------------------------------------- library: the sorted list
\* The value the comparator of the tracks computed looks at. Tracks are
\* added at distinct times, in the order of their ids.
SortValue(track, sortBy) ==
  CASE sortBy = "plays" -> track.plays
    [] sortBy = "likes" -> track.likes
    [] sortBy = "date" -> track.id

\* The comparator: 1 or -1, never 0.
Compare(a, b, sortBy, sortOrder) ==
  IF sortOrder = "asc"
    THEN IF SortValue(a, sortBy) > SortValue(b, sortBy) THEN 1 ELSE -1
    ELSE IF SortValue(a, sortBy) < SortValue(b, sortBy) THEN 1 ELSE -1

\* Array.prototype.sort with that comparator: an arrangement in which no
\* entry stands before one the comparator puts it after. Where the
\* comparator answers -1 both ways round the order is the engine's.
SortOutcomes(tracks, sortBy, sortOrder) ==
  {sorted \in {[i \in 1..Len(tracks) |-> tracks[f[i]]] : f \in Perms(Len(tracks))} :
     \A i, j \in 1..Len(sorted) :
       i < j => Compare(sorted[i], sorted[j], sortBy, sortOrder) < 0}

Result(op, id, outcome) == [op |-> op, id |-> id, outcome |-> outcome]

\* The catch block of createTrack / updateTrack / deleteTrack: record the
\* message, set the state to 'error', rethrow.
Thrown(l, op, id, outcome) ==
  [l EXCEPT !.loadingState = "error", !.lastResult = Result(op, id, outcome)]

LoadTracksOp(l) ==
  [l EXCEPT !.loadingState = "loading",
            !.storeQueue = Append(@, [op |-> "getAll", for |-> "load"])]

\* createTrack up to its first wait on the file reader.
CreateTrackOp(l, d) ==
  LET l1 == [l EXCEPT !.loadingState = "loading"]
  IN IF ~ValidateTrackData(d) THEN Thrown(l1, "create", NoTrack, "invalid data")
     ELSE IF ~AudioFileAccepted(d.audio) THEN Thrown(l1, "create", NoTrack, "invalid file")
     ELSE [l1 EXCEPT !.preparing = Append(@, d)]

\* createTrack from the audio file having been read to the store write:
\* the image checks, the file reads and the duration probe (readable says
\* whether the browser could read them), then saveTrack.
FilesReadOp(l, i, readable, id) ==
  LET d == l.preparing[i]
      l1 == [l EXCEPT !.preparing = SubSeq(@, 1, i - 1) \o SubSeq(@, i + 1, Len(@))]
  IN IF d.image # NoFile /\ ~ImageFileAccepted(d.image)
       THEN Thrown(l1, "create", NoTrack, "invalid file")
     ELSE IF ~readable THEN Thrown(l1, "create", NoTrack, "unreadable file")
     ELSE [l1 EXCEPT !.issuedIds = @ \cup {id},
                     !.storeQueue = Append(@, [op |-> "put", for |-> "create",
                                               track |-> NewTrack(id, d)])]

\* A variant of updateTrack that issues its store read before checking the
\* updates.
UpdateTrackLateCheck(l, id, u) ==
  LET l1 == [l EXCEPT !.loadingState = "loading",
                      !.storeQueue = Append(@, [op |-> "get", for |-> "update",
                                                id |-> id, updates |-> u])]
  IN IF ~ValidateUpdates(u) THEN Thrown(l1, "update", id, "invalid data") ELSE l1

UpdateTrackOp(l, id, u) ==
  LET l1 == [l EXCEPT !.loadingState = "loading"]
  IN IF ~ValidateUpdates(u) THEN Thrown(l1, "update", id, "invalid data")
     ELSE [l1 EXCEPT !.storeQueue = Append(@, [op |-> "get", for |-> "update",
                                               id |-> id, updates |-> u])]

\* A variant of deleteTrack that takes the track off the projection before
\* the store has answered.
DeleteTrackOptimistic(l, id, stopIfCurrent) ==
  [l EXCEPT !.loadingState = "loading",
            !.tracksSignal = WithoutId(@, id),
            !.storeQueue = Append(@, [op |-> "delete", for |-> "delete", id |-> id,
                                      stopIfCurrent |-> stopIfCurrent])]

DeleteTrackOp(l, id, stopIfCurrent) ==
  [l EXCEPT !.loadingState = "loading",
            !.storeQueue = Append(@, [op |-> "delete", for |-> "delete", id |-> id,
                                      stopIfCurrent |-> stopIfCurrent])]

\* A variant of the update continuation that treats a missing record as an
\* empty one.
UpdateGotUpsert(l, req) ==
  LET blank == [id |-> req.id, title |-> Absent, artist |-> Absent,
                description |-> Absent, category |-> "", addedDate |-> NewDate,
                plays |-> 0, likes |-> 0]
      existingTrack == IF req.id \in DOMAIN l.store THEN l.store[req.id] ELSE blank
  IN [l EXCEPT !.storeQueue = Append(@, [op |-> "put", for |-> "update", id |-> req.id,
                                         track |-> Merge(existingTrack, req.updates)])]

\* The store answers a request with success: its effect on the store, then
\* the continuation of the call that was waiting for it.
UpdateGot(l, req) ==
  LET existingTrack == StoreGet(l.store, req.id)
  IN IF existingTrack = NullRecord THEN Thrown(l, "update", req.id, "not found")
     ELSE [l EXCEPT !.storeQueue = Append(@, [op |-> "put", for |-> "update",
                                              id |-> req.id,
                                              track |-> Merge(existingTrack, req.updates)])]

\* A variant of the delete continuation over a store that rejects the
\* delete of an absent key.
DeletedStrict(l, req) ==
  IF req.id \notin DOMAIN l.store THEN Thrown(l, "delete", req.id, "not found")
  ELSE [l EXCEPT !.store = StoreDelete(@, req.id),
                 !.tracksSignal = WithoutId(@, req.id),
                 !.loadingState = "success",
                 !.lastResult = Result("delete", req.id, "ok")]

Deleted(l, req) ==
  [l EXCEPT !.store = StoreDelete(@, req.id),
            !.tracksSignal = WithoutId(@, req.id),
            !.loadingState = "success",
            !.lastResult = Result("delete", req.id, "ok")]

\* ------------------------------------------- library: plays and likes
\* TrackService.playTrack / StorageService.incrementTrackPlays: the read.
PlayTrackOp(l, id) ==
  [l EXCEPT !.storeQueue = Append(@, [op |-> "get", for |-> "plays", id |-> id])]

\* TrackService.likeTrack / StorageService.toggleTrackLike: the read.
LikeTrackOp(l, id) ==
  [l EXCEPT !.storeQueue = Append(@, [op |-> "get", for |-> "likes", id |-> id])]

\* playTrack after incrementTrackPlays returned: the projection's own count
\* of the track goes up by one.
PlaysCounted(l, id) ==
  [l EXCEPT !.tracksSignal =
              [i \in 1..Len(@) |-> IF @[i].id = id THEN [@[i] EXCEPT !.plays = @ + 1]
                                                   ELSE @[i]],
            !.lastResult = Result("plays", id, "ok")]

\* likeTrack after toggleTrackLike returned likes.
LikesSet(l, id, likes) ==
  [l EXCEPT !.tracksSignal =
              [i \in 1..Len(@) |-> IF @[i].id = id THEN [@[i] EXCEPT !.likes = likes]
                                                   ELSE @[i]],
            !.lastResult = Result("likes", id, "ok")]

\* incrementTrackPlays / toggleTrackLike after getTrack answered: the
\* record read, with its count raised, is written back; a missing record
\* ends the call (toggleTrackLike returning 0).
CounterGot(l, req) ==
  LET track == StoreGet(l.store, req.id)
  IN IF track = NullRecord
       THEN IF req.for = "plays" THEN PlaysCounted(l, req.id) ELSE LikesSet(l, req.id, 0)
       ELSE [l EXCEPT !.storeQueue =
               Append(@, [op |-> "put", for |-> req.for,
                          track |-> IF req.for = "plays"
                                      THEN [track EXCEPT !.plays = @ + 1]
                                      ELSE [track EXCEPT !.likes = @ + 1]])]

\* ------------------------------------------- library: export and import
\* JSON.stringify followed by JSON.parse: a Date comes back as the ISO
\* string of its instant, a string as itself, an undefined key stays absent.
ThroughJson(v) == IF v.type = "Date" THEN [v EXCEPT !.type = "string"] ELSE v

TrackThroughJson(t) == [t EXCEPT !.addedDate = ThroughJson(@)]

PlaylistThroughJson(pl) == [pl EXCEPT !.createdDate = ThroughJson(@)]

\* The parsed content of the file exportData builds from the two reads.
Snapshot(tracks, pls) ==
  [tracks |-> [i \in 1..Len(tracks) |-> TrackThroughJson(tracks[i])],
   playlists |-> [i \in 1..Len(pls) |-> PlaylistThroughJson(pls[i])]]

NoExport == [kind |-> "none"]
NoOrigin == [kind |-> "not exported here"]
MalformedFile == [kind |-> "malformed"]          \* a file JSON.parse rejects

\* A file that was not exported in this session: one playlist, no track.
PlaylistFile ==
  [kind |-> "json",
   data |-> [tracks |-> <<>>,
             playlists |-> <<[id |-> 1, createdDate |-> ThroughJson(NewDate)]>>],
   origin |-> NoOrigin]

\* TrackService.exportData / StorageService.exportData: the first read.
ExportDataOp(l) ==
  [l EXCEPT !.storeQueue = Append(@, [op |-> "getAll", for |-> "export"])]

\* StorageService.importData: the next write of the loop over data.tracks
\* and data.playlists, then the loadTracks of TrackService.importData.  job
\* is history: what the file was exported from and whether the stores were
\* empty when the import began.
ImportNext(l, rest, job) ==
  IF rest.tracks # <<>>
    THEN [l EXCEPT !.storeQueue =
            Append(@, [op |-> "put", for |-> "import", track |-> Head(rest.tracks),
                       rest |-> [rest EXCEPT !.tracks = Tail(@)], job |-> job])]
  ELSE IF rest.playlists # <<>>
    THEN [l EXCEPT !.storeQueue =
            Append(@, [op |-> "putPlaylist", for |-> "import",
                       playlist |-> Head(rest.playlists),
                       rest |-> [rest EXCEPT !.playlists = Tail(@)], job |-> job])]
  ELSE [l EXCEPT !.loadingState = "loading",
                 !.storeQueue = Append(@, [op |-> "getAll", for |-> "import",
                                           job |-> job])]

ImportDataOp(l, file) ==
  LET l1 == [l EXCEPT !.loadingState = "loading"]
  IN IF file.kind = "malformed" THEN Thrown(l1, "import", NoTrack, "invalid file")
     ELSE ImportNext(l1, file.data,
                     [origin |-> file.origin,
                      intoEmpty |-> (l.store = <<>> /\ l.playlists = <<>>)])

ClearAllDataOp(l) ==
  [l EXCEPT !.loadingState = "loading",
            !.storeQueue = Append(@, [op |-> "clear", for |-> "clear"])]

Succeeded(l, req) ==
  CASE req.op = "getAll" /\ req.for = "load" ->
         [l EXCEPT !.tracksSignal = StoreGetAll(l.store), !.loadingState = "success",
                   !.lastResult = Result("load", NoTrack, "ok")]
    [] req.op = "get" /\ req.for = "update" -> UpdateGot(l, req)
    [] req.op = "get" /\ req.for \in {"plays", "likes"} -> CounterGot(l, req)
    [] req.op = "put" /\ req.for = "plays" ->
         PlaysCounted([l EXCEPT !.store = StorePut(@, req.track)], req.track.id)
    [] req.op = "put" /\ req.for = "likes" ->
         LikesSet([l EXCEPT !.store = StorePut(@, req.track)], req.track.id,
                  req.track.likes)
    [] req.op = "delete" -> Deleted(l, req)
    [] req.op = "put" /\ req.for = "create" ->
         [l EXCEPT !.store = StorePut(@, req.track),
                   !.tracksSignal = Append(@, req.track),
                   !.loadingState = "success",
                   !.lastResult = Result("create", req.track.id, "ok")]
    [] req.op = "put" /\ req.for = "update" ->
         [l EXCEPT !.store = StorePut(@, req.track),
                   !.tracksSignal = Replaced(@, req.id, req.track),
                   !.loadingState = "success",
                   !.lastResult = Result("update", req.id, "ok")]
    [] req.op = "getAll" /\ req.for = "export" ->
         [l EXCEPT !.storeQueue = Append(@, [op |-> "getAllPlaylists", for |-> "export",
                                             tracks |-> StoreGetAll(l.store),
                                             origin |-> l.store])]
    [] req.op = "getAllPlaylists" ->
         [l EXCEPT !.exported =
                     [kind |-> "json",
                      data |-> Snapshot(req.tracks, StoreGetAll(l.playlists)),
                      origin |-> [tracks |-> req.origin, playlists |-> l.playlists]],
                   !.lastResult = Result("export", NoTrack, "ok")]
    [] req.op = "put" /\ req.for = "import" ->
         ImportNext([l EXCEPT !.store = StorePut(@, req.track)], req.rest, req.job)
    [] req.op = "putPlaylist" ->
         ImportNext([l EXCEPT !.playlists = StorePut(@, req.playlist)], req.rest, req.job)
    [] req.op = "getAll" /\ req.for = "import" ->
         [l EXCEPT !.tracksSignal = StoreGetAll(l.store), !.loadingState = "success",
                   !.lastResult = Result("import", NoTrack, "ok")]
    [] req.op = "clear" ->
         [l EXCEPT !.store = <<>>, !.playlists = <<>>, !.tracksSignal = <<>>,
                   !.loadingState = "success",
                   !.lastResult = Result("clear", NoTrack, "ok")]

\* The id a request is about, NoTrack when it is about no single track.
RequestId(req) ==
  CASE req.op = "put" -> IF req.for = "update" THEN req.id ELSE req.track.id
    [] req.op \in {"get", "delete"} -> req.id
    [] OTHER -> NoTrack

\* The store answers a request with an error: loadTracks reports it and
\* returns (also when importData called it, which then ends in success),
\* exportData rejects without touching the loading state, playTrack and
\* likeTrack log it and return, the mutations rethrow it.
Failed(l, req) ==
  CASE req.for = "load" ->
         [l EXCEPT !.loadingState = "error",
                   !.lastResult = Result("load", NoTrack, "storage error")]
    [] req.for = "import" /\ req.op = "getAll" ->
         [l EXCEPT !.loadingState = "success",
                   !.lastResult = Result("import", NoTrack, "ok")]
    [] req.for = "export" ->
         [l EXCEPT !.lastResult = Result("export", NoTrack, "storage error")]
    [] req.for \in {"plays", "likes"} ->
         [l EXCEPT !.lastResult = Result(req.for, RequestId(req), "logged error")]
    [] OTHER -> Thrown(l, req.for, RequestId(req), "storage error")

\* --------------------------------------------------------------- actions
CanLoad(n) == Len(pendingLoads) + n <= MaxPending

SetQueueUpTo(n) ==
  \E tracks \in SeqsUpTo(TrackIds, n), startIndex \in 0..n :
    \E shuffled \in (IF isShuffled THEN Shuffles(tracks) ELSE {tracks}) :
      /\ CanLoad(1)
      /\ NavigationStep(SetQueueOp(P, tracks, startIndex, shuffled),
                        [op |-> "setQueue",
                         index |-> [tracks |-> tracks, startIndex |-> startIndex]])
      /\ roundTrip' = IF isShuffled THEN NoRoundTrip
                                   ELSE [phase |-> "installed", Q |-> tracks,
                                         shuffled |-> <<>>]

SetQueue == SetQueueUpTo(MaxQueue)

AddToQueue ==
  \E track \in TrackIds, playNext \in BOOLEAN :
    /\ Len(queue) < MaxQueue
    /\ Len(originalQueue) < MaxQueue
    /\ NavigationStep(AddToQueueOp(P, track, playNext),
                      [Called("addToQueue", 0, P) EXCEPT !.index = [track |-> track,
                                                                    playNext |-> playNext]])
    /\ roundTrip' = NoRoundTrip

RemoveFromQueueUpTo(n) ==
  \E index \in 0..n :
    /\ NavigationStep(RemoveFromQueueOp(P, index), Called("removeFromQueue", index, P))
    /\ roundTrip' = NoRoundTrip

RemoveFromQueue == RemoveFromQueueUpTo(MaxQueue)

ToggleShuffle ==
  \E shuffled \in (IF isShuffled THEN {queue} ELSE Shuffles(queue)) :
    /\ PlayerStep(ToggleShuffleOp(P, shuffled))
    /\ roundTrip' =
         CASE roundTrip.phase = "installed" ->
                [roundTrip EXCEPT !.phase = "shuffled", !.shuffled = queue']
           [] roundTrip.phase = "shuffled" -> [roundTrip EXCEPT !.phase = "restored"]
           [] OTHER -> NoRoundTrip


ToggleRepeat ==
  /\ PlayerStep(ToggleRepeatOp(P))
  /\ UNCHANGED roundTrip

PlayOneOf(tracks) ==
  \E track \in tracks :
    /\ track # NoTrack => CanLoad(1)
    /\ NavigationStep(PlayOp(P, track), Noted("play", track, P))
  /\ UNCHANGED roundTrip

Play == PlayOneOf(TrackIds \cup {NoTrack})

\* play() without a track
Resume == PlayOneOf({NoTrack})

Pause ==
  /\ PlayerStep(PauseOp(P))
  /\ UNCHANGED roundTrip

TogglePlay ==
  /\ PlayerStep(TogglePlayOp(P))
  /\ UNCHANGED roundTrip

Stop ==
  /\ NavigationStep(StopOp(P), Noted("stop", 0, P))
  /\ UNCHANGED roundTrip

Seek ==
  /\ \E time \in (-1)..(MaxTime + 1) :
       NavigationStep(SeekOp(P, time), Noted("seek", time, P))
  /\ UNCHANGED roundTrip

\* saveState(): called by the player component when it is destroyed and,
\* while a track is current, by its effect.
SaveState ==
  /\ CommitSignals(P)
  /\ savedState' = SaveStateSnapshot(P)
  /\ lastCall' = NoCall
  /\ UNCHANGED <<boot, roundTrip, libVars>>

\* The page is loaded again: a new service and a new device, the
\* constructor taking the volume the volume effect stored, and what the
\* page before left under the state key. boot remembers that snapshot.
Restart ==
  /\ boot.phase = "first"
  /\ volume \in 0..FullVolume
  /\ CommitSignals(Constructed(volume))
  /\ savedState' = savedState
  /\ boot' = [phase |-> "constructed", stored |-> savedState]
  /\ lastCall' = NoCall
  /\ UNCHANGED <<roundTrip, libVars>>

\* The startup sequence: AudioPlayerComponent.ngOnInit calls restoreState(),
\* and 100 ms later the timer of AppComponent.ngOnInit calls it again. The
\* state effect has run in between.
RestoreState ==
  /\ boot.phase \in {"constructed", "restoredOnce"}
  /\ Commit(RestoreStateOp(P, savedState))
  /\ boot' = [boot EXCEPT !.phase = IF @ = "constructed" THEN "restoredOnce"
                                                         ELSE "started"]
  /\ lastCall' = NoCall
  /\ UNCHANGED <<roundTrip, libVars>>

\* clearQueue(): both queues emptied, stop(), no current track, index -1.
ClearQueue ==
  /\ NavigationStep([StopOp(P) EXCEPT !.queue = <<>>, !.originalQueue = <<>>,
                                      !.currentTrack = NoTrack,
                                      !.currentIndex = -1],
                    Noted("clearQueue", 0, P))
  /\ roundTrip' = NoRoundTrip

\* AudioPlayerComponent.playFromQueue(index): setQueue(queue(), index),
\* then play(track) with the entry at index.
PlayFromQueue ==
  /\ CanLoad(2)
  /\ \E index \in 0..(Len(queue) - 1) :
       \E shuffled \in (IF isShuffled THEN Shuffles(queue) ELSE {queue}) :
         NavigationStep(PlayOp(SetQueueOp(P, queue, index, shuffled),
                               queue[index + 1]),
                        [op |-> "playFromQueue", index |-> index,
                         was |-> [queue |-> queue, isShuffled |-> isShuffled]])
  /\ roundTrip' = NoRoundTrip

\* A component or template reads playerService.duration().
ReadDuration ==
  /\ PlayerStep(ReadDurationOp(P))
  /\ UNCHANGED roundTrip

SetVolume ==
  /\ \E v \in (-MaxStep)..(FullVolume + MaxStep) :
       NavigationStep(SetVolumeOp(P, v), Noted("setVolume", v, P))
  /\ UNCHANGED roundTrip

IncreaseVolume ==
  /\ volume \in (-MaxStep)..(FullVolume + MaxStep)
  /\ \E amount \in {-MaxStep, DefaultAmount, MaxStep} :
       NavigationStep(IncreaseVolumeOp(P, amount), Noted("increaseVolume", amount, P))
  /\ UNCHANGED roundTrip

DecreaseVolume ==
  /\ volume \in (-MaxStep)..(FullVolume + MaxStep)
  /\ \E amount \in {-MaxStep, DefaultAmount, MaxStep} :
       NavigationStep(DecreaseVolumeOp(P, amount), Noted("decreaseVolume", amount, P))
  /\ UNCHANGED roundTrip

ToggleMute ==
  /\ NavigationStep(ToggleMuteOp(P), Noted("toggleMute", 0, P))
  /\ UNCHANGED roundTrip

NextTrack ==
  /\ CanLoad(1)
  /\ NavigationStep(NextOp(P), Called("next", 0, P))
  /\ UNCHANGED roundTrip

PreviousTrack ==
  /\ CanLoad(1)
  /\ NavigationStep(PreviousOp(P), Called("previous", 0, P))
  /\ UNCHANGED roundTrip

\* ---------------------------------------------------------- device events
\* 'canplay': the service's listener clears isLoading, and the onCanPlay
\* listener of every pending loadTrack resolves its promise.
DeviceCanPlay ==
  /\ audioSrc # NoTrack
  /\ DeviceStep(ResolveAll([P EXCEPT !.isLoading = FALSE, !.pendingLoads = <<>>,
                                    !.audioReady = TRUE],
                       pendingLoads))
  /\ UNCHANGED roundTrip

\* 'error': the service's listener, then the onError listener of every
\* pending loadTrack rejects its promise.
DeviceError ==
  /\ audioSrc # NoTrack
  /\ NavigationStep(RejectAll([P EXCEPT !.error = "audio", !.status = "stopped",
                                        !.isLoading = FALSE, !.pendingLoads = <<>>],
                              pendingLoads),
                    Noted("error", Len(pendingLoads), P))
  /\ UNCHANGED roundTrip

\* The 10 s safety timer of the oldest pending loadTrack resolves it.
LoadTimeout ==
  /\ pendingLoads # <<>>
  /\ NavigationStep(LoadResolved([P EXCEPT !.pendingLoads = Tail(@)], Head(pendingLoads)),
                    Noted("timeout", Len(pendingLoads), P))
  /\ UNCHANGED roundTrip

\* The 'pause' event a pause() call queued is delivered: the listener sets
\* the status.
DevicePaused ==
  /\ pauseQueued
  /\ Commit([P EXCEPT !.status = "paused", !.pauseQueued = FALSE])
  /\ UNCHANGED <<boot, lastCall, roundTrip, libVars>>

\* 'waiting': the device, asked to play, has run out of data.
DeviceWaiting ==
  /\ audioSrc # NoTrack
  /\ ~audioPaused
  /\ status # "buffering"
  /\ DeviceStep([P EXCEPT !.status = "buffering", !.isLoading = TRUE])
  /\ UNCHANGED roundTrip

\* Playback starts: the 'playing' listener runs and the promises returned
\* by audioElement.play() resolve, so play() sets the status.
PlayStarted ==
  /\ pendingPlay
  /\ ~audioPaused
  /\ audioSrc # NoTrack
  /\ DeviceStep([P EXCEPT !.status = "playing", !.isLoading = FALSE,
                      !.pendingPlay = FALSE])
  /\ UNCHANGED roundTrip

\* A promise returned by audioElement.play() rejects: the catch of play().
\* Later play() calls may still be pending.
PlayRejected ==
  /\ pendingPlay
  /\ \E more \in BOOLEAN :
       DeviceStep([P EXCEPT !.error = "play", !.status = "stopped",
                        !.pendingPlay = more])
  /\ UNCHANGED roundTrip

\* The device is playing: its position moves on, short of the end, and the
\* 'timeupdate' listener copies it to currentTime.
Playing == audioSrc # NoTrack /\ audioReady /\ ~audioPaused /\ ~pendingPlay

DeviceAdvances ==
  /\ Playing
  /\ \E t \in (audioCurrentTime + 1)..(MaxTime - 1) :
       DeviceStep([P EXCEPT !.audioCurrentTime = t, !.currentTime = t])
  /\ UNCHANGED roundTrip

\* 'timeupdate' after the device reset its position on load().
TimeUpdate ==
  /\ currentTime # audioCurrentTime
  /\ DeviceStep([P EXCEPT !.currentTime = audioCurrentTime])
  /\ UNCHANGED roundTrip

\* The device reaches the end of the media: 'timeupdate', then 'pause' when
\* the device pauses itself at the end, then 'ended', whose listener is
\* handleTrackEnd.
DeviceEnded ==
  /\ Playing
  /\ CanLoad(1)
  /\ \E pausedFirst \in BOOLEAN :
       LET atEnd == [P EXCEPT !.audioCurrentTime = MaxTime, !.currentTime = MaxTime]
           heard == IF pausedFirst
                      THEN [atEnd EXCEPT !.audioPaused = TRUE, !.status = "paused"]
                      ELSE atEnd
       IN NavigationStep(HandleTrackEnd(heard), Called("ended", 0, heard))
  /\ UNCHANGED roundTrip

\* --------------------------------------------------------- library actions
Issuable(limit) == Len(storeQueue) + Len(preparing) < limit

CanIssue == Issuable(MaxInFlight)

PlayerUnchanged == UNCHANGED <<playerVars, roundTrip, lastCall>>

\* TrackService.loadTracks, called by the components' ngOnInit
LoadTracksWithin(limit) ==
  /\ Issuable(limit)
  /\ LibStep(LoadTracksOp(L), FALSE)
  /\ PlayerUnchanged

LoadTracks == LoadTracksWithin(MaxInFlight)

CreateTrackFrom(inputs, limit) ==
  \E d \in inputs :
    /\ Issuable(limit)
    /\ Cardinality(issuedIds) + Len(preparing) < Cardinality(TrackIds)
    /\ LET l == CreateTrackOp(L, d) IN LibStep(l, l.loadingState = "error")
    /\ PlayerUnchanged

CreateTrack == CreateTrackFrom(CreateInputs, MaxInFlight)

FilesRead ==
  \E i \in 1..Len(preparing), readable \in BOOLEAN, id \in TrackIds \ issuedIds :
    /\ LET l == FilesReadOp(L, i, readable, id)
       IN LibStep(l, l.storeQueue = storeQueue)
    /\ PlayerUnchanged

UpdateTrackFrom(inputs, limit) ==
  \E id \in TrackIds, u \in inputs :
    /\ Issuable(limit)
    /\ LET l == UpdateTrackOp(L, id, u) IN LibStep(l, l.loadingState = "error")
    /\ PlayerUnchanged

UpdateTrack == UpdateTrackFrom(UpdateInputs, MaxInFlight)

\* TrackService.deleteTrack as called by LibraryComponent.onDeleteTrack and
\* TrackDetailComponent.deleteTrack (which stop the player when the deleted
\* track is the current one) and by deleteSelectedTracks (which does not).
DeleteTrackFrom(callers, limit) ==
  \E id \in TrackIds, stopIfCurrent \in callers :
    /\ Issuable(limit)
    /\ LibStep(DeleteTrackOp(L, id, stopIfCurrent), FALSE)
    /\ PlayerUnchanged

DeleteTrack == DeleteTrackFrom(BOOLEAN, MaxInFlight)

\* The same calls overlapping: up to MaxConcurrent of them in flight, with
\* one input each.
LoadTracksConcurrently == LoadTracksWithin(MaxConcurrent)

CreateTrackConcurrently == CreateTrackFrom({ValidInput}, MaxConcurrent)

UpdateTrackConcurrently ==
  UpdateTrackFrom({[NoUpdates EXCEPT !.title = Text(2, 0)]}, MaxConcurrent)

DeleteTrackConcurrently == DeleteTrackFrom({FALSE}, MaxConcurrent)

StoreSucceeds ==
  /\ storeQueue # <<>>
  /\ LET req == Head(storeQueue)
         l == Succeeded([L EXCEPT !.storeQueue = Tail(@)], req)
     IN /\ LibStep(l, Len(l.storeQueue) < Len(storeQueue))
        /\ IF req.op = "delete" /\ req.stopIfCurrent /\ currentTrack = req.id
             THEN Commit(StopOp(P)) /\ lastCall' = NoCall /\ boot' = boot
             ELSE UNCHANGED <<playerVars, lastCall>>
  /\ UNCHANGED roundTrip

StoreFails ==
  /\ storeQueue # <<>>
  /\ LibStep(Failed([L EXCEPT !.storeQueue = Tail(@)], Head(storeQueue)), TRUE)
  /\ PlayerUnchanged

\* TrackService.playTrack, called when the player's current track changes,
\* and TrackService.likeTrack, called by the like buttons.
PlayTrack ==
  \E id \in TrackIds :
    /\ Issuable(MaxEngaged)
    /\ \A i \in DOMAIN store : store[i].plays < MaxCount
    /\ LibStep(PlayTrackOp(L, id), FALSE)
    /\ PlayerUnchanged

LikeTrack ==
  \E id \in TrackIds :
    /\ Issuable(MaxEngaged)
    /\ \A i \in DOMAIN store : store[i].likes < MaxCount
    /\ LibStep(LikeTrackOp(L, id), FALSE)
    /\ PlayerUnchanged

\* The first track of the library being created, and tracks being edited
\* while plays and likes are in flight.
CreateFirstTrack ==
  /\ issuedIds = {}
  /\ CreateTrackFrom({ValidInput}, MaxInFlight)

UpdateTrackEngaged ==
  UpdateTrackFrom({[NoUpdates EXCEPT !.title = Text(2, 0)]}, MaxEngaged)

\* setSortBy / setSortOrder
SetSort ==
  /\ \E sortBy \in {"date", "plays", "likes"}, sortOrder \in {"asc", "desc"} :
       listing' = [listing EXCEPT !.sortBy = sortBy, !.sortOrder = sortOrder]
  /\ CommitLib(L)
  /\ UNCHANGED repeated
  /\ PlayerUnchanged

\* The tracks computed is read: the projection is copied and sorted.
ReadTracks ==
  /\ \E sorted \in SortOutcomes(tracksSignal, listing.sortBy, listing.sortOrder) :
       listing' = [listing EXCEPT !.from = tracksSignal, !.tracks = sorted]
  /\ CommitLib(L)
  /\ UNCHANGED repeated
  /\ PlayerUnchanged

\* LibraryComponent.exportData
ExportData ==
  /\ CanIssue
  /\ LibStep(ExportDataOp(L), FALSE)
  /\ PlayerUnchanged

\* LibraryComponent.importData, with the file the user picks
ImportData ==
  \E file \in {MalformedFile, PlaylistFile} \cup ({exported} \ {NoExport}) :
    /\ CanIssue
    /\ LET l == ImportDataOp(L, file) IN LibStep(l, l.loadingState = "error")
    /\ PlayerUnchanged

\* LibraryComponent.clearAllData
ClearAllData ==
  /\ CanIssue
  /\ LibStep(ClearAllDataOp(L), FALSE)
  /\ PlayerUnchanged

\* LibraryComponent.onAddToQueue, for a track the library shows
OnAddToQueue ==
  \E i \in 1..Len(tracksSignal) :
    /\ Len(queue) < MaxQueue
    /\ PlayerStep(AddToQueueOp(P, tracksSignal[i].id, FALSE))
    /\ roundTrip' = NoRoundTrip

\* LibraryComponent.onPlayTrack, for a track the library shows
OnPlayTrackOp(p, id) ==
  IF p.currentTrack = id /\ p.status = "playing" THEN PauseOp(p)
  ELSE IF p.currentTrack = id THEN PlayOp(p, NoTrack)
  ELSE PlayOp(SetQueueOp(p, <<id>>, 0, <<id>>), NoTrack)

OnPlayTrack ==
  \E i \in 1..Len(tracksSignal) :
    /\ CanLoad(1)
    /\ ~isShuffled
    /\ PlayerStep(OnPlayTrackOp(P, tracksSignal[i].id))
    /\ roundTrip' = NoRoundTrip

Init ==
  /\ currentTrack = NoTrack
  /\ status = "stopped"
  /\ queue = <<>>
  /\ currentIndex = -1
  /\ isShuffled = FALSE
  /\ isRepeating = FALSE
  /\ originalQueue = <<>>
  /\ error = ""
  /\ isLoading = FALSE
  /\ audioSrc = NoTrack
  /\ audioPaused = TRUE
  /\ pendingLoads = <<>>
  /\ pendingPlay = FALSE
  /\ currentTime = 0
  /\ audioCurrentTime = 0
  /\ audioReady = FALSE
  /\ pauseQueued = FALSE
  /\ durationMemo = Unread
  /\ volume = InitialVolume
  /\ isMuted = FALSE
  /\ savedState = [currentTrack |-> NoTrack, status |-> "stopped",
                   volume |-> InitialVolume, isMuted |-> FALSE,
                   isShuffled |-> FALSE, isRepeating |-> FALSE,
                   queue |-> <<>>, currentIndex |-> -1]
  /\ boot = [phase |-> "first"]
  /\ roundTrip = NoRoundTrip
  /\ lastCall = NoCall
  \* the TrackService constructor has called loadTracks()
  /\ store = <<>>
  /\ tracksSignal = <<>>
  /\ loadingState = "loading"
  /\ storeQueue = <<[op |-> "getAll", for |-> "load"]>>
  /\ preparing = <<>>
  /\ issuedIds = {}
  /\ lastResult = Result("none", NoTrack, "ok")
  /\ repeated = FALSE
  /\ playlists = <<>>
  /\ exported = NoExport
  /\ listing = [sortBy |-> "date", sortOrder |-> "desc", from |-> <<>>,
                tracks |-> <<>>]

\* Queue management: the queue intents, with the device settling the loads
\* they issue.
Next ==
  \/ SetQueue
  \/ AddToQueue
  \/ RemoveFromQueue
  \/ ToggleShuffle
  \/ DeviceCanPlay
  \/ DeviceError
  \/ LoadTimeout

Spec == Init /\ [][Next]_vars

\* Loading and playback: the intents that load or play, with the device.
SpecLoad ==
  /\ Init
  /\ [][\/ SetQueue
        \/ Play
        \/ Pause
        \/ TogglePlay
        \/ Stop
        \/ NextTrack
        \/ ToggleRepeat
        \/ DeviceCanPlay
        \/ DeviceError
        \/ LoadTimeout
        \/ PlayStarted
        \/ PlayRejected]_vars

\* The library: the track service calls and the store answering them.
SpecLibrary ==
  /\ Init
  /\ [][\/ LoadTracks
        \/ CreateTrack
        \/ FilesRead
        \/ UpdateTrack
        \/ DeleteTrack
        \/ StoreSucceeds
        \/ StoreFails]_vars

\* Refreshes of the projection overlapping the mutations.
SpecRefresh ==
  /\ Init
  /\ [][\/ LoadTracksConcurrently
        \/ CreateTrackConcurrently
        \/ FilesRead
        \/ UpdateTrackConcurrently
        \/ DeleteTrackConcurrently
        \/ StoreSucceeds
        \/ StoreFails]_vars

\* Plays and likes overlapping the edits of a track.
SpecEngagement ==
  /\ Init
  /\ [][\/ CreateFirstTrack
        \/ FilesRead
        \/ UpdateTrackEngaged
        \/ PlayTrack
        \/ LikeTrack
        \/ StoreSucceeds
        \/ StoreFails]_vars

\* Navigation: next(), previous() and the end of a track, over a queue
\* that setQueue installs while there is none, with the device loading,
\* playing and advancing.
SetQueueOnce == queue = <<>> /\ SetQueue

SpecPlayback ==
  /\ Init
  /\ [][\/ SetQueueOnce
        \/ ToggleRepeat
        \/ Resume
        \/ Pause
        \/ NextTrack
        \/ PreviousTrack
        \/ DeviceCanPlay
        \/ PlayStarted
        \/ DeviceAdvances
        \/ TimeUpdate
        \/ DeviceEnded]_vars

\* Device failures: loads and playback over a queue installed once, with
\* the preferences changing, and the device failing at any point.
SpecFailure ==
  /\ Init
  /\ [][\/ SetQueueOnce
        \/ Resume
        \/ NextTrack
        \/ ToggleShuffle
        \/ ToggleRepeat
        \/ ToggleMute
        \/ DeviceCanPlay
        \/ DeviceError
        \/ PlayStarted]_vars

\* Loads on a device that never answers: neither 'canplay' nor 'error'
\* arrives, and the 10 s timer of each load is what settles it. A timer
\* that has been set fires: weak fairness of LoadTimeout.
SpecTimeout ==
  /\ Init
  /\ [][\/ SetQueueOnce
        \/ Play
        \/ NextTrack
        \/ Pause
        \/ LoadTimeout]_vars
  /\ WF_vars(LoadTimeout)

\* The transport controls: play, pause and stop over a queue installed
\* once, with the device starting, stalling and reporting its pauses.
SpecTransport ==
  /\ Init
  /\ [][\/ SetQueueOnce
        \/ Play
        \/ Pause
        \/ Stop
        \/ DeviceCanPlay
        \/ PlayStarted
        \/ DeviceWaiting
        \/ DevicePaused]_vars

\* Seeking: a queue installed once, the device loading and playing, the
\* duration being read by the page, and seek() with times on both sides
\* of the media.
SpecSeek ==
  /\ Init
  /\ [][\/ SetQueueOnce
        \/ NextTrack
        \/ Resume
        \/ DeviceCanPlay
        \/ PlayStarted
        \/ DeviceAdvances
        \/ ReadDuration
        \/ Seek]_vars

\* The volume and the other preferences, with steps of either sign.
SpecPreferences ==
  /\ Init
  /\ [][\/ SetVolume
        \/ IncreaseVolume
        \/ DecreaseVolume
        \/ ToggleMute
        \/ ToggleRepeat
        \/ ToggleShuffle]_vars

\* The stored snapshot: playback over a queue installed once, the
\* preferences changing, and saveState() called by the page.
SpecSnapshot ==
  /\ Init
  /\ [][\/ SetQueueOnce
        \/ NextTrack
        \/ Resume
        \/ Pause
        \/ ToggleRepeat
        \/ ToggleMute
        \/ DeviceCanPlay
        \/ PlayStarted
        \/ DeviceAdvances
        \/ SaveState]_vars

\* Startup: a first page load in which a queue is installed, played and
\* saved, then the page loaded again with its two restoreState() calls and
\* nobody touching the player, on a device that does not fail.
SpecStartup ==
  /\ Init
  /\ [][\/ boot.phase = "first" /\ (\/ SetQueueOnce
                                    \/ Resume
                                    \/ Pause
                                    \/ DeviceAdvances
                                    \/ SaveState
                                    \/ Restart)
        \/ DeviceCanPlay
        \/ PlayStarted
        \/ RestoreState]_vars

\* The queue and its pointer: every queue intent together with next() and
\* previous(), the device settling the loads.
SpecPointer ==
  /\ Init
  /\ [][\/ SetQueue
        \/ AddToQueue
        \/ RemoveFromQueue
        \/ ToggleShuffle
        \/ NextTrack
        \/ PreviousTrack
        \/ DeviceCanPlay]_vars

\* Entries being removed from longer queues, each installed by setQueue
\* once the one before has been emptied.
SetLongQueue == queue = <<>> /\ SetQueueUpTo(MaxEdited)

RemoveFromLongQueue == RemoveFromQueueUpTo(MaxEdited)

\* A session of queue edits and navigation, its end, and the next start.
SpecSession ==
  /\ Init
  /\ [][\/ boot.phase = "first" /\ (\/ SetQueueOnce
                                    \/ AddToQueue
                                    \/ RemoveFromQueue
                                    \/ ClearQueue
                                    \/ SaveState
                                    \/ Restart)
        \/ NextTrack
        \/ PreviousTrack
        \/ ToggleShuffle
        \/ ToggleRepeat
        \/ RestoreState
        \/ DeviceCanPlay]_vars

\* The transport controls with the queue cleared and walked, and the
\* device answering.
SpecStop ==
  /\ Init
  /\ [][\/ SetQueueOnce
        \/ Play
        \/ Pause
        \/ TogglePlay
        \/ Stop
        \/ ClearQueue
        \/ NextTrack
        \/ PreviousTrack
        \/ DeviceCanPlay
        \/ PlayStarted
        \/ PlayRejected
        \/ DevicePaused]_vars

\* The queue panel: a queue installed, entries of it selected.
SpecSelect ==
  /\ Init
  /\ [][\/ SetQueueOnce
        \/ PlayFromQueue
        \/ ToggleShuffle
        \/ DeviceCanPlay
        \/ PlayStarted]_vars

SpecQueueEdit ==
  /\ Init
  /\ [][\/ SetLongQueue
        \/ RemoveFromLongQueue
        \/ DeviceCanPlay]_vars

\* Tracks being created and then edited one call at a time, with updates
\* that carry an id key.
CreateValidTrack == CreateTrackFrom({ValidInput}, MaxInFlight)

UpdateTrackWithId ==
  UpdateTrackFrom({[NoUpdates EXCEPT !.id = i] : i \in TrackIds}
                    \cup {[NoUpdates EXCEPT !.title = Text(2, 0)]}, MaxInFlight)

SpecIdentity ==
  /\ Init
  /\ [][\/ LoadTracks
        \/ CreateValidTrack
        \/ FilesRead
        \/ UpdateTrackWithId
        \/ StoreSucceeds
        \/ StoreFails]_vars

\* The sorted list: tracks created and played, the sort key and order
\* chosen, and the list read.
SpecSort ==
  /\ Init
  /\ [][\/ CreateValidTrack
        \/ FilesRead
        \/ PlayTrack
        \/ StoreSucceeds
        \/ SetSort
        \/ ReadTracks]_vars

\* Export, import and clearing of the stores, next to tracks being created
\* and deleted.
\* One track of the library played again and again, the calls overlapping.
SpecPlays ==
  /\ Init
  /\ [][\/ CreateFirstTrack
        \/ FilesRead
        \/ PlayTrack
        \/ StoreSucceeds
        \/ StoreFails]_vars

SpecTransfer ==
  /\ Init
  /\ [][\/ LoadTracks
        \/ CreateTrack
        \/ FilesRead
        \/ DeleteTrack
        \/ ExportData
        \/ ImportData
        \/ ClearAllData
        \/ StoreSucceeds
        \/ StoreFails]_vars

\* The library page: tracks being added to and deleted from the library,
\* and the page's handlers driving the player with the tracks it shows.
SpecLibraryPage ==
  /\ Init
  /\ [][\/ LoadTracks
        \/ CreateTrack
        \/ FilesRead
        \/ DeleteTrack
        \/ StoreSucceeds
        \/ StoreFails
        \/ OnAddToQueue
        \/ OnPlayTrack
        \/ DeviceCanPlay
        \/ PlayStarted]_vars


\* ================================================================ claims
Range(s) == {s[i] : i \in 1..Len(s)}

\* How many entries of s carry each track id.
IdBag(s) == [id \in TrackIds |-> Cardinality({i \in 1..Len(s) : s[i] = id})]

\* C1: after any sequence of setQueue, addToQueue and removeFromQueue calls,
\* currentIndex is -1 exactly when the queue is empty, and is otherwise a
\* valid index into the queue.
C1_QueueInvariant ==
  /\ (currentIndex = -1) <=> (Len(queue) = 0)
  /\ Len(queue) > 0 => (0 <= currentIndex /\ currentIndex < Len(queue))

\* C2: for the queue Q that setQueue installed, the queue after enabling
\* shuffle is a permutation of Q, and the queue after disabling it again
\* holds exactly the track ids of Q, each as often as Q does.
C2_ShuffleRoundTrip ==
  /\ roundTrip.phase = "shuffled" => IdBag(queue) = IdBag(roundTrip.Q)
  /\ roundTrip.phase = "restored" =>
       /\ Range(queue) = Range(roundTrip.Q)
       /\ IdBag(queue) = IdBag(roundTrip.Q)

\* C2 witness: a round trip has completed on a queue of two different
\* tracks, and the shuffle in between did reorder it.
C2_Witness ==
  /\ roundTrip.phase = "restored"
  /\ Cardinality(Range(roundTrip.Q)) >= 2
  /\ roundTrip.shuffled # roundTrip.Q
  /\ queue = roundTrip.Q

C4_LoadSupersession ==
  [][/\ pendingLoads' # <<>> => audioSrc' = pendingLoads'[Len(pendingLoads')].track
     /\ ( /\ DeviceCanPlay \/ DeviceError \/ LoadTimeout
          /\ Len(pendingLoads) >= 2
          /\ ~pendingLoads[Len(pendingLoads)].thenPlay
          /\ \A i \in 1..(Len(pendingLoads) - 1) :
                pendingLoads[i].track # pendingLoads[Len(pendingLoads)].track
          /\ ~pendingPlay )
        => (~pendingPlay' /\ audioPaused' = audioPaused)]_vars

\* C5: when a delete issued through the library completes, no entry of the
\* player queue has the deleted track's id.
C5_DeleteEvictsFromQueue ==
  [][(StoreSucceeds /\ Head(storeQueue).op = "delete")
       => Head(storeQueue).id \notin Range(queue')]_vars

\* C6: when the store rejects the write or delete of createTrack,
\* updateTrack or deleteTrack, the step leaves projection and store as they
\* were and the call ends with the storage error; and the projection is
\* never changed ahead of the store's answer: the only steps that change it
\* are the store's successful answers to a write, a delete or a getAll.
C6_StoreFailureLeavesProjection ==
  [][/\ (StoreFails /\ Head(storeQueue).op \in {"put", "delete"})
          => /\ tracksSignal' = tracksSignal
             /\ store' = store
             /\ lastResult'.op = Head(storeQueue).for
             /\ lastResult'.outcome = "storage error"
             /\ loadingState' = "error"
     /\ tracksSignal' # tracksSignal
          => (StoreSucceeds /\ Head(storeQueue).op # "get")]_vars

C6_Witness ==
  /\ lastResult.op \in {"create", "update", "delete"}
  /\ lastResult.outcome = "storage error"
  /\ tracksSignal # <<>>

\* C7: a createTrack or updateTrack call that ends by rejecting its input
\* (the data or a file) leaves the stored tracks and the projection
\* unchanged, has issued no request to the store, and ends with the
\* validation error.
C7_ValidationMutatesNothing ==
  [][(\/ (CreateTrack \/ UpdateTrack) /\ loadingState' = "error"
      \/ FilesRead /\ lastResult'.outcome = "invalid file"
                   /\ Len(preparing') < Len(preparing) /\ issuedIds' = issuedIds)
       => /\ store' = store
          /\ tracksSignal' = tracksSignal
          /\ storeQueue' = storeQueue
          /\ lastResult'.op \in {"create", "update"}
          /\ lastResult'.outcome \in {"invalid data", "invalid file"}]_vars

C7_Witness ==
  /\ lastResult.op \in {"create", "update"}
  /\ lastResult.outcome \in {"invalid data", "invalid file"}
  /\ loadingState = "error"
  /\ store # <<>>
  /\ Ids(tracksSignal) = DOMAIN store

\* C8: every stored track has a non-empty title and artist of at most 50
\* characters, a description of at most 200 characters and a category of
\* the enum.
PolicyHolds(t) ==
  /\ t.title # Absent /\ t.title.len >= 1 /\ t.title.len <= MaxTitleLength
  /\ t.artist # Absent /\ t.artist.len >= 1 /\ t.artist.len <= MaxTitleLength
  /\ t.description.len <= MaxDescriptionLength
  /\ t.category \in MusicCategory

C8_PolicyOnEveryWrite == \A id \in DOMAIN store : PolicyHolds(store[id])

\* C9: for an id that is in neither the store nor the projection, a read
\* answers the null record; the store answering a delete of it leaves store
\* and projection as they were and the call ends without error; the store
\* answering the read of an update of it leaves store and projection as they
\* were, issues no write, and the call ends with the not-found error.
Missing(id) == id \notin DOMAIN store /\ id \notin Ids(tracksSignal)

C9_MissingIds ==
  [][/\ \A id \in TrackIds :
          Missing(id) => /\ StoreGet(store, id) = NullRecord
                         /\ GetTrackById(tracksSignal, id) = NullRecord
     /\ (StoreSucceeds /\ Head(storeQueue).op = "delete" /\ Missing(Head(storeQueue).id))
          => /\ store' = store
             /\ tracksSignal' = tracksSignal
             /\ lastResult' = Result("delete", Head(storeQueue).id, "ok")
             /\ loadingState' = "success"
     /\ (StoreSucceeds /\ Head(storeQueue).op = "get" /\ Missing(Head(storeQueue).id))
          => /\ store' = store
             /\ tracksSignal' = tracksSignal
             /\ storeQueue' = Tail(storeQueue)
             /\ lastResult' = Result("update", Head(storeQueue).id, "not found")
             /\ loadingState' = "error"]_vars

C9_Witness ==
  /\ lastResult.op = "update"
  /\ lastResult.outcome = "not found"
  /\ Missing(lastResult.id)
  /\ store # <<>>

\* C10: when the delete of an id completes right after a delete of the same
\* id completed, store and projection are what the first delete left and
\* the second ends without error like the first.
C10_IdempotentDelete ==
  [][(StoreSucceeds /\ Head(storeQueue).op = "delete"
        /\ lastResult = Result("delete", Head(storeQueue).id, "ok"))
       => /\ store' = store
          /\ tracksSignal' = tracksSignal
          /\ lastResult' = lastResult
          /\ loadingState' = "success"]_vars

C10_Witness ==
  /\ lastResult.op = "delete"
  /\ lastResult.outcome = "ok"
  /\ repeated
  /\ lastResult.id \in issuedIds
  /\ lastResult.id \notin DOMAIN store
  /\ store # <<>>

\* C11: when the store rejects the write of one record of an import, the
\* records written before it stay written and, when records remain, the
\* import goes on to write the next one instead of ending there.
C11_ImportAppliesEachRecord ==
  [][(StoreFails /\ Head(storeQueue).for = "import"
        /\ Head(storeQueue).op \in {"put", "putPlaylist"})
       => /\ store' = store
          /\ playlists' = playlists
          /\ (Head(storeQueue).rest.tracks # <<>> \/ Head(storeQueue).rest.playlists # <<>>)
               => \E i \in 1..Len(storeQueue') :
                    /\ storeQueue'[i].for = "import"
                    /\ storeQueue'[i].op \in {"put", "putPlaylist"}]_vars

\* C12: when the import of a file exported in this session, begun over empty
\* stores, has written its last record, the track store and the playlist
\* store are equal to the stores the file was exported from.
C12_ExportImportRoundTrip ==
  [][((StoreSucceeds \/ StoreFails)
        /\ Head(storeQueue).op = "getAll" /\ Head(storeQueue).for = "import"
        /\ Head(storeQueue).job.intoEmpty
        /\ Head(storeQueue).job.origin # NoOrigin)
       => /\ store' = Head(storeQueue).job.origin.tracks
          /\ playlists' = Head(storeQueue).job.origin.playlists]_vars

\* C14: whenever no library call is in flight, the ids of the projection
\* are the ids of the track store.
C14_IndexFollowsStore ==
  (storeQueue = <<>> /\ preparing = <<>>) => Ids(tracksSignal) = DOMAIN store

\* C13: the store's answer to a refresh puts the store's present contents
\* in the projection; and when a write or delete of createTrack, updateTrack
\* or deleteTrack is confirmed right after a refresh completed (a refresh
\* whose read was therefore issued before the confirmation), the projection
\* reflects the mutation: it shows the created or updated track as written,
\* and does not show the deleted one.
C13_NoStaleRead ==
  [][/\ (StoreSucceeds /\ Head(storeQueue).op = "getAll" /\ Head(storeQueue).for = "load")
          => tracksSignal' = StoreGetAll(store)
     /\ (StoreSucceeds /\ lastResult = Result("load", NoTrack, "ok")
           /\ Head(storeQueue).op = "put"
           /\ Head(storeQueue).for \in {"create", "update"})
          => GetTrackById(tracksSignal', Head(storeQueue).track.id) = Head(storeQueue).track
     /\ (StoreSucceeds /\ lastResult = Result("load", NoTrack, "ok")
           /\ Head(storeQueue).op = "delete")
          => Head(storeQueue).id \notin Ids(tracksSignal')]_vars

\* C15: no step makes the play count or the like count of a stored track
\* smaller than it was.
C15_CountersNeverDecrease ==
  [][\A id \in DOMAIN store :
       id \in DOMAIN store' => /\ store'[id].plays >= store[id].plays
                               /\ store'[id].likes >= store[id].likes]_vars

\* C16: the ids shown by the projection are pairwise distinct, and the
\* write of an updateTrack leaves every track of the projection and of the
\* store under the id it had.
IdsOf(tracks) == [i \in 1..Len(tracks) |-> tracks[i].id]

C16_IdsUniqueAndImmutable ==
  [][/\ \A i, j \in 1..Len(tracksSignal') :
          i # j => tracksSignal'[i].id # tracksSignal'[j].id
     /\ (StoreSucceeds /\ Head(storeQueue).op = "put" /\ Head(storeQueue).for = "update")
          => /\ IdsOf(tracksSignal') = IdsOf(tracksSignal)
             /\ DOMAIN store' = DOMAIN store]_vars

C18_Next ==
  [][NextTrack =>
       IF currentIndex + 1 \in 0..(Len(queue) - 1)
         THEN currentIndex' = currentIndex + 1 /\ currentTrack' = queue[currentIndex + 2]
         ELSE IF isRepeating
           THEN currentIndex' = 0 /\ currentTrack' = At(queue, 0)
           ELSE /\ currentTrack' = currentTrack
                /\ currentIndex' = currentIndex
                /\ status' = status]_vars

\* next() at the last entry of a two-entry queue, without repeat while the
\* status was playing.
C18_Witness ==
  /\ lastCall.op = "next"
  /\ ~lastCall.was.isRepeating
  /\ Len(queue) = 2
  /\ lastCall.was.currentIndex = 1
  /\ currentIndex = 1
  /\ status = "playing"

\* C19: previous() puts the position at 0 and keeps the index when more
\* than three seconds have elapsed or no entry precedes the current one;
\* otherwise it moves to the entry before the current one.
C19_Previous ==
  [][PreviousTrack =>
       IF currentTime > RestartAfter \/ currentIndex <= 0
         THEN currentTime' = 0 /\ currentIndex' = currentIndex
         ELSE currentIndex' = currentIndex - 1
                /\ currentTrack' = At(queue, currentIndex - 1)]_vars

\* C20: removeFromQueue(index) with an index inside the queue takes out
\* that entry and keeps the others in order; the pointer becomes
\* max(0, currentIndex - 1) when index <= currentIndex and is otherwise kept.
C20_RemoveFromQueue ==
  [][RemoveFromLongQueue =>
       LET index == lastCall'.index
       IN index \in 0..(Len(queue) - 1) =>
            /\ Len(queue') = Len(queue) - 1
            /\ \A i \in 0..(Len(queue) - 2) :
                 queue'[i + 1] = IF i < index THEN queue[i + 1] ELSE queue[i + 2]
            /\ currentIndex' = IF index <= currentIndex
                                 THEN Max(0, currentIndex - 1) ELSE currentIndex]_vars

\* removeFromQueue(0) of a four-entry queue with the pointer at 2: the
\* pointer is at 1 and the former entry 3 is entry 2.
C20_Witness ==
  /\ lastCall.op = "removeFromQueue"
  /\ lastCall.index = 0
  /\ lastCall.was.currentIndex = 2
  /\ Len(lastCall.was.queue) = 4
  /\ lastCall.was.queue[3] # lastCall.was.queue[4]
  /\ currentIndex = 1
  /\ queue[3] = lastCall.was.queue[4]

\* C21: addToQueue(track, playNext) puts the track at position
\* currentIndex + 1 of the queue when playNext is set and at its end
\* otherwise, keeping the other entries in order; it appends the track to
\* the original queue and leaves currentIndex and the current track alone.
C21_AddToQueue ==
  [][AddToQueue =>
       LET track == lastCall'.index.track
           playNext == lastCall'.index.playNext
       IN /\ IF playNext
               THEN /\ currentIndex + 1 \in 0..Len(queue)
                    /\ Len(queue') = Len(queue) + 1
                    /\ queue'[currentIndex + 2] = track
                    /\ RemoveAt(queue', currentIndex + 1) = queue
               ELSE queue' = Append(queue, track)
          /\ originalQueue' = Append(originalQueue, track)
          /\ currentIndex' = currentIndex
          /\ currentTrack' = currentTrack]_vars

\* C22: setQueue(tracks, startIndex) makes tracks the original queue and
\* the entries of the queue, and when tracks[startIndex] exists the current
\* track is that track and so is queue[currentIndex], with shuffle on or off.
C22_SetQueue ==
  [][SetQueue =>
       LET tracks == lastCall'.index.tracks
           startIndex == lastCall'.index.startIndex
       IN /\ originalQueue' = tracks
          /\ IdBag(queue') = IdBag(tracks)
          /\ ~isShuffled => queue' = tracks
          /\ startIndex \in 0..(Len(tracks) - 1)
               => /\ currentTrack' = tracks[startIndex + 1]
                  /\ At(queue', currentIndex') = tracks[startIndex + 1]]_vars

\* C23: when the device signals ready for a pending load while the status
\* is loading, either playback is being started (and its start sets the
\* status to playing) or the status becomes paused or stopped with the
\* position at 0; the status does not remain loading.
C23_LoadCompletion ==
  [][/\ (DeviceCanPlay /\ pendingLoads # <<>> /\ status = "loading")
          => \/ pendingPlay'
             \/ status' \in {"paused", "stopped"} /\ audioCurrentTime' = 0
     /\ PlayStarted => status' = "playing"]_vars

\* C24: when the device signals an error the status becomes stopped and an
\* error message is set; queue, original queue, currentIndex, volume, mute,
\* shuffle and repeat are as they were immediately before the error, and
\* nothing is retried: no load is pending afterwards, the device stays
\* bound to the same source and no playback is requested by the error.
C24_DeviceErrorContained ==
  [][DeviceError =>
       /\ status' = "stopped"
       /\ error' # ""
       /\ UNCHANGED <<queue, originalQueue, currentIndex, volume, isMuted,
                      isShuffled, isRepeating>>
       /\ pendingLoads' = <<>>
       /\ ~isLoading'
       /\ audioSrc' = audioSrc
       /\ pendingPlay' = pendingPlay]_vars

\* A load was pending with the status loading when the device failed.
C24_Witness ==
  /\ lastCall.op = "error"
  /\ lastCall.index > 0
  /\ lastCall.was.status = "loading"
  /\ status = "stopped"
  /\ error # ""
  /\ queue # <<>>
  /\ pendingLoads = <<>>

\* C25: a pending load always terminates. On a device that never signals
\* ready or error, the timer settles the oldest pending load as if the
\* device were ready and clears the loading indicator, and whenever a load
\* is pending such a step follows.
C25_LoadTerminates ==
  /\ [][LoadTimeout =>
          /\ pendingLoads' = Tail(pendingLoads)
          /\ ~isLoading'
          /\ error' = error
          /\ Head(pendingLoads).thenPlay /\ currentTrack # NoTrack => pendingPlay']_vars
  /\ (pendingLoads # <<>>) ~> (lastCall.op = "timeout" /\ ~isLoading)

\* The timer has settled the only pending load of a play(track).
C25_Witness ==
  /\ lastCall.op = "timeout"
  /\ lastCall.index = 1
  /\ pendingLoads = <<>>
  /\ ~isLoading
  /\ pendingPlay
  /\ error = ""

\* C26: stop() from any status sets status stopped and position 0 and
\* leaves queue, currentIndex and current track unchanged, and the status
\* is still stopped once the device has reported the pause that followed.
C26_Stop ==
  [][/\ Stop => /\ status' = "stopped"
                /\ currentTime' = 0
                /\ audioCurrentTime' = 0
                /\ UNCHANGED <<queue, currentIndex, currentTrack>>
     /\ (DevicePaused /\ lastCall.op = "stop") => status' = "stopped"]_vars

\* C27: play() without a track changes neither status, current track,
\* queue nor currentIndex when there is no current track or the status is
\* playing; from loading or paused with a current track it asks the device
\* to play, and the status is playing when the device starts.
C27_Play ==
  [][/\ (Play /\ lastCall'.index = NoTrack) =>
          /\ (currentTrack = NoTrack \/ status = "playing")
               => UNCHANGED <<status, currentTrack, queue, currentIndex>>
          /\ (currentTrack # NoTrack /\ status \in {"loading", "paused"})
               => pendingPlay' /\ ~audioPaused'
     /\ PlayStarted => status' = "playing"]_vars

\* play() was called on a paused player that has a current track.
C27_Witness ==
  /\ lastCall.op = "play"
  /\ lastCall.index = NoTrack
  /\ lastCall.was.status = "paused"
  /\ currentTrack # NoTrack
  /\ pendingPlay
  /\ ~audioPaused

\* C28: on a device that knows its duration, seek(time) sets the playback
\* position, of the player and of the device, to time clamped to
\* [0, duration] and does not change the status, so that the position is
\* between 0 and the duration.
C28_Seek ==
  [][(Seek /\ audioReady) =>
       LET safeTime == Max(0, Min(lastCall'.index, MaxTime))
       IN /\ currentTime' = safeTime
          /\ audioCurrentTime' = safeTime
          /\ currentTime' \in 0..MaxTime
          /\ status' = status]_vars

\* C29: the stored volume is always within [0,1]: setVolume(v) stores v
\* clamped to [0,1], toggleMute leaves the stored volume alone, and no
\* setVolume, increaseVolume(amount), decreaseVolume(amount) or toggleMute
\* takes the stored volume outside [0,1].
C29_VolumeInRange ==
  [][/\ SetVolume => volume' = Max(0, Min(FullVolume, lastCall'.index))
     /\ ToggleMute => volume' = volume /\ isMuted' = ~isMuted
     /\ volume' \in 0..FullVolume]_vars

C31_ResumeOnStartup ==
  (/\ boot.phase = "started"
   /\ boot.stored.currentTrack # NoTrack
   /\ boot.stored.status = "playing"
   /\ audioReady
   /\ pendingLoads = <<>>
   /\ ~(pendingPlay /\ ~audioPaused))
    => status = "playing"

\* C32: when the snapshot found at startup has a current track, a queue and
\* a stored position p > 0, then when the load that restoreState started
\* completes the playback position, of the player and of the device, is p.
C32_PositionRestored ==
  [][(/\ DeviceCanPlay
      /\ pendingLoads # <<>>
      /\ boot.phase \in {"restoredOnce", "started"}
      /\ boot.stored.currentTrack # NoTrack
      /\ "currentTime" \in DOMAIN boot.stored
      /\ boot.stored.currentTime > 0)
       => /\ currentTime' = boot.stored.currentTime
          /\ audioCurrentTime' = boot.stored.currentTime]_vars

\* C33: the sorted list keeps tracks with equal sort values in the order of
\* the list it was sorted from, and sorting the same list again by the
\* same key and order gives the same list.
C33_SortStable ==
  [][ReadTracks =>
       /\ \A i, j \in 1..Len(listing'.tracks) :
            (/\ i < j
             /\ SortValue(listing'.tracks[i], listing.sortBy)
                  = SortValue(listing'.tracks[j], listing.sortBy))
              => \E a, b \in 1..Len(tracksSignal) :
                   /\ a < b
                   /\ tracksSignal[a] = listing'.tracks[i]
                   /\ tracksSignal[b] = listing'.tracks[j]
       /\ (listing.from = tracksSignal /\ Len(listing.tracks) = Len(tracksSignal))
            => listing'.tracks = listing.tracks]_vars

\* C34: after any sequence of setQueue, addToQueue, removeFromQueue, next,
\* previous and toggleShuffle, whenever a current track is set and the
\* queue is not empty, the entry of the queue at currentIndex is the
\* current track.
C34_PointerCoherence ==
  (currentTrack # NoTrack /\ queue # <<>>)
    => /\ currentIndex \in 0..(Len(queue) - 1)
       /\ queue[currentIndex + 1] = currentTrack

\* C35: next, previous, toggleShuffle, toggleRepeat, clearQueue and the
\* restoreState of a snapshot the player saved keep the queue invariant:
\* from a state where currentIndex is -1 exactly when the queue is empty
\* and is otherwise a valid index, each of them leads to such a state.
C35_NavigationKeepsQueueInvariant ==
  [][(/\ \/ NextTrack
         \/ PreviousTrack
         \/ ToggleShuffle
         \/ ToggleRepeat
         \/ ClearQueue
         \/ RestoreState
      /\ (currentIndex = -1) <=> (queue = <<>>)
      /\ currentIndex \in -1..(Len(queue) - 1))
       => /\ (currentIndex' = -1) <=> (queue' = <<>>)
          /\ currentIndex' \in -1..(Len(queue') - 1)]_vars

\* C36: after any sequence of setQueue, addToQueue, removeFromQueue,
\* toggleShuffle, clearQueue and a saveState/restoreState cycle, the live
\* queue and the original queue hold the same track ids, each as often.
C36_QueuesSameMultiset == IdBag(queue) = IdBag(originalQueue)

\* C37: once stop() has been called, and until the next call that plays,
\* loads or changes the queue, the status stays stopped and the position
\* stays 0, whatever the device reports: its pause event, or the completion
\* of a load or of a play that was pending when stop() was called.
C37_StopIsStable ==
  [][(lastCall.op = "stop" /\ lastCall'.op = "stop")
       => (status' = "stopped" /\ currentTime' = 0)]_vars

\* C38: whenever no track is current, the status is stopped, after any
\* sequence of play, pause, togglePlay, stop, clearQueue, next, previous and
\* device events.
C38_NoTrackNoActivity == currentTrack = NoTrack => status = "stopped"

\* C39: whenever no playTrack call is in flight, each track of the
\* projection has the play count its record in the store has, however the
\* store requests of overlapping playTrack calls were served.
C39_PlayCountsAgree ==
  (\A i \in 1..Len(storeQueue) : storeQueue[i].for # "plays")
    => \A i \in 1..Len(tracksSignal) :
         tracksSignal[i].id \in DOMAIN store
           => tracksSignal[i].plays = store[tracksSignal[i].id].plays

\* C40: playFromQueue(i) with a valid index i keeps the ids of the queue,
\* each as often, makes the selected entry the current track, and leaves
\* currentIndex on that entry, at i itself when shuffle is off, also when
\* the queue holds the same track more than once.
C40_PlayFromQueue ==
  [][PlayFromQueue =>
       /\ IdBag(queue') = IdBag(queue)
       /\ currentTrack' = queue[lastCall'.index + 1]
       /\ currentIndex' \in 0..(Len(queue') - 1)
       /\ queue'[currentIndex' + 1] = queue[lastCall'.index + 1]
       /\ ~isShuffled => currentIndex' = lastCall'.index]_vars

====
